---- MODULE Spec2Model ----
(***************************************************************************)
(* A state-machine model of the nf-scrape single-page client               *)
(* (src/src/App.tsx): the localStorage-backed search history and analytics *)
(* hooks, the URL state hook, and the App component's search handlers      *)
(* (handleSearch, handleBatchSearch, handleBack) with the requests they    *)
(* have in flight.                                                         *)
(*                                                                         *)
(* Conventions.  A video identifier is a numeric string in the program and *)
(* a positive number here.  ids.join(',') is modelled by the list of       *)
(* identifiers itself (the join of a list of comma-free strings determines *)
(* the list), so the identifier a single search hands to trackSearch is    *)
(* the one-element list.  null is the value Null.                          *)
(*                                                                         *)
(* Specifications.                                                         *)
(*   SpecHistory    addToHistory and clearHistory applied to a history     *)
(*                  list loaded from storage (0..20 entries).              *)
(*   SpecAnalytics  trackSearch applied repeatedly to the empty snapshot.  *)
(*   Spec           the page: the user's actions, and the continuations of *)
(*                  handleSearch and handleBatchSearch as their requests   *)
(*                  resolve or reject.  A continuation between two awaits  *)
(*                  is one step: the event loop runs it to completion.     *)
(*   SpecLive       the searches of the page, every request being answered *)
(*                  eventually.                                            *)
(*   SpecOverlap    the page followed through two searches, which may      *)
(*                  overlap (SpecOverlapLive: with the same fairness).     *)
(*   SpecCountdown  TitleHeader and CountdownTimer of one entity.          *)
(*   SpecRuntime    formatRuntime applied to a runtime.                    *)
(*                                                                         *)
(* calls[c].requested, .status, .got, .errs, the variables trackLog and    *)
(* last record what has happened; the program does not read them.          *)
(***************************************************************************)
EXTENDS Integers, Sequences, FiniteSets, TLC

\* ------------------------------------------------------------ constants

\* const MAX_HISTORY = 20
MAX_HISTORY == 20

\* .slice(-50) of trackSearch: the capacity of the searchTimes window
SEARCH_TIMES_CAP == 50

\* .slice(0, 10) of trackSearch: the capacity of recentSearches
RECENT_CAP == 10

\* ids.slice(0, 4) of handleBatchSearch
BATCH_LIMIT == 4

\* useState({ remaining: 100, limit: 100 })
RATE_LIMIT_INITIAL == 100

\* -------------------------------------------------------------- bounds

\* the ticks a countdown is followed for
MaxTicks == 5

\* the longest runtime rendered, in seconds
MaxRuntimeSec == 7300

\* identifiers are 1..NumIds
NumIds == 21

\* hook-level runs of the history store: operations applied to a loaded list
MaxHistoryOps == 1

\* hook-level runs of the analytics counter: trackSearch calls from empty
MaxTracks == 52

\* ... of which at most this many carry an input other than the plain one
MaxOddTracks == 1

\* the clock (Date.now()) stops advancing here
MaxClock == 24

\* handleSearch / handleBatchSearch invocations in a run of the App
MaxCalls == 1

\* the longest identifier list a batch search is given
MaxBatchIds == 5

\* handleSearch invocations in a run of the App that lets searches overlap
MaxOverlapCalls == 2

\* searches in a run of the App that follows single searches by batches
MaxFrameCalls == 2

\* ------------------------------------------------------------- helpers

Null == [null |-> TRUE]

Min(a, b) == IF a <= b THEN a ELSE b

\* Array.prototype.slice(0, n), n >= 0
SliceFront(s, n) == SubSeq(s, 1, Min(n, Len(s)))

\* Array.prototype.slice(-n), n > 0
SliceBack(s, n) == SubSeq(s, Len(s) - Min(n, Len(s)) + 1, Len(s))

\* searchTimes.reduce((a, b) => a + b, 0)
RECURSIVE Sum(_)
Sum(s) == IF s = <<>> THEN 0 ELSE Head(s) + Sum(Tail(s))

\* Math.round(a / b) for a >= 0, b > 0: the nearest integer, a tie going up.
\* (The float quotient of two integers below 2^53 with b <= 50 is either the
\* exact tie k + 1/2 or at least 1/100 away from it, so the float rounds as
\* the exact quotient does.)
MathRoundDiv(a, b) == (2 * a + b) \div (2 * b)

\* ------------------------------------------------------- history store

\* the updater of addToHistory without the slice
HistoryAddUncapped(prev, id, title, ts) ==
  <<[id |-> id, title |-> title, timestamp |-> ts]>>
    \o SelectSeq(prev, LAMBDA item : item.id # id)

\* the updater of addToHistory without the filter
HistoryAddNoFilter(prev, id, title, ts) ==
  SliceFront(<<[id |-> id, title |-> title, timestamp |-> ts]>> \o prev,
             MAX_HISTORY)

\* the updater of addToHistory: prev => updated
HistoryAdd(prev, id, title, ts) ==
  LET filtered == SelectSeq(prev, LAMBDA item : item.id # id)
      newItem  == [id |-> id, title |-> title, timestamp |-> ts]
      updated  == SliceFront(<<newItem>> \o filtered, MAX_HISTORY)
  IN  updated

\* --------------------------------------------------- analytics counter

\* getFromStorage's default of useAnalytics
EmptyAnalytics ==
  [totalSearches |-> 0, avgResponseTime |-> 0,
   searchTimes |-> <<>>, recentSearches |-> <<>>]

\* the updater of trackSearch with the window sliced from the front
TrackKeepOldest(prev, id, responseTime) ==
  LET searchTimes == SliceFront(Append(prev.searchTimes, responseTime),
                                SEARCH_TIMES_CAP)
  IN  [totalSearches   |-> prev.totalSearches + 1,
       avgResponseTime |-> MathRoundDiv(Sum(searchTimes), Len(searchTimes)),
       searchTimes     |-> searchTimes,
       recentSearches  |-> SliceFront(<<[id |-> id, time |-> responseTime]>>
                                        \o prev.recentSearches, RECENT_CAP)]

\* the updater of trackSearch with the average taken before the slice
TrackAvgUnsliced(prev, id, responseTime) ==
  LET all         == Append(prev.searchTimes, responseTime)
      searchTimes == SliceBack(all, SEARCH_TIMES_CAP)
  IN  [totalSearches   |-> prev.totalSearches + 1,
       avgResponseTime |-> MathRoundDiv(Sum(all), Len(all)),
       searchTimes     |-> searchTimes,
       recentSearches  |-> SliceFront(<<[id |-> id, time |-> responseTime]>>
                                        \o prev.recentSearches, RECENT_CAP)]

\* the updater of trackSearch with the recent list sliced from the back
TrackRecentKeepOldest(prev, id, responseTime) ==
  LET searchTimes == SliceBack(Append(prev.searchTimes, responseTime),
                               SEARCH_TIMES_CAP)
  IN  [totalSearches   |-> prev.totalSearches + 1,
       avgResponseTime |-> MathRoundDiv(Sum(searchTimes), Len(searchTimes)),
       searchTimes     |-> searchTimes,
       recentSearches  |-> SliceBack(<<[id |-> id, time |-> responseTime]>>
                                       \o prev.recentSearches, RECENT_CAP)]

\* the updater of trackSearch: prev => updated
Track(prev, id, responseTime) ==
  LET searchTimes     == SliceBack(Append(prev.searchTimes, responseTime),
                                   SEARCH_TIMES_CAP)
      avgResponseTime == MathRoundDiv(Sum(searchTimes), Len(searchTimes))
      recentSearches  == SliceFront(<<[id |-> id, time |-> responseTime]>>
                                      \o prev.recentSearches, RECENT_CAP)
      updated == [totalSearches   |-> prev.totalSearches + 1,
                  avgResponseTime |-> avgResponseTime,
                  searchTimes     |-> searchTimes,
                  recentSearches  |-> recentSearches]
  IN  updated

\* ---------------------------------------------------------------- state

VARIABLES
  history,         \* useSearchHistory: SearchHistoryItem[]
  analytics,       \* useAnalytics: AnalyticsData
  stored,          \* localStorage: what is persisted under the two keys
  storageWritable, \* whether localStorage.setItem succeeds
  storageReadable, \* whether localStorage.getItem succeeds
  clock,           \* the latest reading of Date.now()
  data,            \* App: the single search's response body, or null
  comparisonData,  \* App: NetflixEntity[]
  isLoading,       \* App
  error,           \* App: string | null
  rateLimit,       \* App: { remaining, limit }
  urlV,            \* the query parameter v of window.location (0: absent)
  sessionLen,      \* entries added to window.history since the page load
  showHistory,     \* SearchForm: the history dropdown is open
  mounted,         \* App's effects have run
  calls,           \* the handleSearch / handleBatchSearch invocations so far
  net,             \* the requests awaiting fetch() or response.json()
  toasts,          \* the toast.success / toast.error calls so far
  trackLog,        \* the arguments of the trackSearch calls so far
  hookOps,         \* the hook operations applied on their own so far
  callCap,         \* the handler invocations the run is followed for
  countdown,       \* TitleHeader / CountdownTimer of a displayed entity
  runtime,         \* a runtime in seconds and the text rendered for it
  last             \* the latest step: its name, inputs and the state before it

hookVars == <<history, analytics, stored, storageWritable, storageReadable,
              clock>>
appVars  == <<data, comparisonData, isLoading, error, rateLimit, urlV,
              sessionLen, showHistory, mounted, calls, net, toasts>>
viewVars == <<countdown, runtime>>
vars     == <<hookVars, appVars, viewVars, trackLog, hookOps, callCap, last>>

\* string | null: the null of a string-valued field
NullStr == "<null>"

\* JavaScript truthiness of a string | null
Truthy(s) == s # NullStr /\ s # ""

\* response.headers.get(name) of a header the response does not carry: null
HeaderNull == -1

\* the rate-limit headers of a response that carries neither
NoHeaders == [remaining |-> HeaderNull, limit |-> HeaderNull]

\* the record of a step: op with its inputs, and the state before it
\* (headers: the rate-limit headers of the response a fetch step received)
Step(op, call, id, title, ok, body, rt) ==
  [op |-> op, call |-> call, id |-> id, title |-> title, ok |-> ok,
   body |-> body, rt |-> rt, headers |-> NoHeaders,
   history |-> history, analytics |-> analytics,
   data |-> data, comparisonData |-> comparisonData, error |-> error,
   isLoading |-> isLoading, rateLimit |-> rateLimit, urlV |-> urlV,
   stored |-> stored]

\* ------------------------------------------------------ storage adapter

\* localStorage.getItem(key) of a key that was never set
Absent == [present |-> FALSE]

\* localStorage.getItem(key) of a key set to JSON.stringify(value).
\* JSON.stringify of these plain lists and records loses nothing, so
\* JSON.parse of the item is the value.
Item(value) == [present |-> TRUE, parses |-> TRUE, value |-> value]

\* localStorage.getItem(key) of a key set to a string JSON.parse throws on
Unparsable == [present |-> TRUE, parses |-> FALSE]

\* setToStorage(key, value): the write, or nothing when setItem throws
SetToStorage(st, key, value) ==
  IF storageWritable THEN [st EXCEPT ![key] = Item(value)] ELSE st

\* getFromStorage reading whatever the key holds, the storage accessible or not
GetFromStorageUnguarded(st, key, defaultValue) ==
  IF st[key].present /\ st[key].parses THEN st[key].value ELSE defaultValue

\* getFromStorage(key, defaultValue): item ? JSON.parse(item) : defaultValue,
\* and defaultValue when getItem or JSON.parse throws
GetFromStorage(st, key, defaultValue) ==
  IF ~storageReadable THEN defaultValue
  ELSE IF ~st[key].present THEN defaultValue
  ELSE IF ~st[key].parses THEN defaultValue
  ELSE st[key].value

\* ------------------------------------------------- hooks as operations

\* Date.now(): a reading not before the latest one
Now == IF clock < MaxClock THEN {clock, clock + 1} ELSE {clock}

\* addToHistory(id, title) at time ts
AddToHistoryAt(id, title, ts) ==
  /\ history' = HistoryAdd(history, id, title, ts)
  /\ clock' = ts

\* trackSearch(id, responseTime)
TrackSearchOp(id, responseTime) ==
  /\ analytics' = Track(analytics, id, responseTime)
  /\ trackLog' = Append(trackLog, [id |-> id, time |-> responseTime])

\* the persisted values after a step that wrote h and a
Persist(writeHistory, writeAnalytics) ==
  stored' =
    LET s1 == IF writeHistory
              THEN SetToStorage(stored, "history", history') ELSE stored
    IN  IF writeAnalytics
        THEN SetToStorage(s1, "analytics", analytics') ELSE s1

\* ------------------------------------------------------------ formatting

\* Math.round of the minutes in place of Math.floor
FormatRuntimeRounded(seconds) ==
  LET hours   == seconds \div 3600
      minutes == (2 * (seconds % 3600) + 60) \div 120
  IN  IF hours > 0
      THEN ToString(hours) \o "h " \o ToString(minutes) \o "m"
      ELSE ToString(minutes) \o "m"

\* formatRuntime(seconds), seconds a non-negative integer
FormatRuntime(seconds) ==
  LET hours   == seconds \div 3600
      minutes == (seconds % 3600) \div 60
  IN  IF hours > 0
      THEN ToString(hours) \o "h " \o ToString(minutes) \o "m"
      ELSE ToString(minutes) \o "m"

\* no runtime has been rendered
NoRuntime == [seconds |-> 0, text |-> ""]

\* ------------------------------------------------------------- countdown

\* the timeLeft of a countdown that has expired
Expired ==
  [days |-> 0, hours |-> 0, minutes |-> 0, seconds |-> 0, isExpired |-> TRUE]

\* calculateTimeLeft expiring only past the target
CalculateTimeLeftStrict(targetDate, now) ==
  LET difference == targetDate - now
  IN  IF difference < 0 THEN Expired
      ELSE [days      |-> difference \div (1000 * 60 * 60 * 24),
            hours     |-> (difference \div (1000 * 60 * 60)) % 24,
            minutes   |-> (difference \div (1000 * 60)) % 60,
            seconds   |-> (difference \div 1000) % 60,
            isExpired |-> FALSE]

\* calculateTimeLeft() of useCountdown(targetDate) when new Date() reads now,
\* both in milliseconds.  (Math.floor of a float quotient of integers, taken
\* modulo 24 or 60, is the integer quotient taken modulo 24 or 60.)
CalculateTimeLeft(targetDate, now) ==
  LET difference == targetDate - now
  IN  IF difference <= 0 THEN Expired
      ELSE [days      |-> difference \div (1000 * 60 * 60 * 24),
            hours     |-> (difference \div (1000 * 60 * 60)) % 24,
            minutes   |-> (difference \div (1000 * 60)) % 60,
            seconds   |-> (difference \div 1000) % 60,
            isExpired |-> FALSE]

\* isFutureDate(dateString): new Date(dateString) > new Date()
IsFutureDate(targetDate, now) == targetDate > now

\* TitleHeader rendered at time now for an entity available at targetDate:
\* CountdownTimer is mounted when the date is in the future, and useCountdown
\* starts from calculateTimeLeft()
CountdownAt(targetDate, now) ==
  [target   |-> targetDate,
   now      |-> now,
   isFuture |-> IsFutureDate(targetDate, now),
   timeLeft |-> IF IsFutureDate(targetDate, now)
                THEN CalculateTimeLeft(targetDate, now) ELSE Expired,
   prev     |-> Expired,
   ticks    |-> 0]

\* no entity is displayed
NoCountdown == CountdownAt(0, 0)

\* the App state of a page that has just loaded with v = v0
AppInit(v0) ==
  /\ data = Null
  /\ comparisonData = <<>>
  /\ isLoading = FALSE
  /\ error = NullStr
  /\ rateLimit = [remaining |-> RATE_LIMIT_INITIAL, limit |-> RATE_LIMIT_INITIAL]
  /\ urlV = v0
  /\ sessionLen = 0
  /\ showHistory = FALSE
  /\ mounted = FALSE
  /\ calls = <<>>
  /\ net = {}
  /\ toasts = <<>>

\* no step yet: the page has just loaded
NoStep == [Step("load", 0, 0, "", FALSE, Null, 0) EXCEPT
             !.history = <<>>, !.analytics = EmptyAnalytics]

\* ------------------------------------------- the history store by itself

Titles == {"Alpha", "Beta"}

\* a list the store has persisted: identifiers n..1 recorded at times 1..n
Recorded(n) ==
  [i \in 1..n |-> [id |-> n + 1 - i, title |-> "Alpha", timestamp |-> n + 1 - i]]

\* the storage works, is full (setItem throws), or is disabled (both throw)
StorageModes ==
  {[readable |-> TRUE, writable |-> TRUE],
   [readable |-> TRUE, writable |-> FALSE],
   [readable |-> FALSE, writable |-> FALSE]}

\* the history key holds nothing, a list the store persisted, or a damaged item
InitHistory ==
  /\ \E n \in 0..MAX_HISTORY :
       /\ stored \in
            {[history |-> IF n = 0 THEN Absent ELSE Item(Recorded(n)),
              analytics |-> Absent]}
              \cup (IF n = 0
                    THEN {[history |-> Unparsable, analytics |-> Absent]}
                    ELSE {})
       /\ clock = n
  /\ \E m \in StorageModes :
       /\ storageReadable = m.readable
       /\ storageWritable = m.writable
  /\ history = GetFromStorage(stored, "history", <<>>)
  /\ analytics = GetFromStorage(stored, "analytics", EmptyAnalytics)
  /\ AppInit(0)
  /\ countdown = NoCountdown
  /\ runtime = NoRuntime
  /\ trackLog = <<>>
  /\ hookOps = 0
  /\ callCap = MaxCalls
  /\ last = NoStep

\* addToHistory(id, title), called on its own
addToHistory(id, title) ==
  /\ hookOps < MaxHistoryOps
  /\ hookOps' = hookOps + 1
  /\ \E ts \in Now : AddToHistoryAt(id, title, ts)
  /\ Persist(TRUE, FALSE)
  /\ last' = Step("addToHistory", 0, id, title, FALSE, Null, 0)
  /\ UNCHANGED <<analytics, storageWritable, storageReadable, appVars,
                 trackLog, callCap, viewVars>>

\* clearHistory without its setToStorage call
clearHistoryUnsaved ==
  /\ hookOps < MaxHistoryOps
  /\ hookOps' = hookOps + 1
  /\ history' = <<>>
  /\ last' = Step("clearHistory", 0, 0, "", FALSE, Null, 0)
  /\ UNCHANGED <<analytics, stored, storageWritable, storageReadable, clock,
                 appVars, trackLog, callCap, viewVars>>

\* clearHistory()
clearHistory ==
  /\ hookOps < MaxHistoryOps
  /\ hookOps' = hookOps + 1
  /\ history' = <<>>
  /\ Persist(TRUE, FALSE)
  /\ last' = Step("clearHistory", 0, 0, "", FALSE, Null, 0)
  /\ UNCHANGED <<analytics, storageWritable, storageReadable, clock, appVars,
                 trackLog, callCap, viewVars>>

NextHistory ==
  \/ \E id \in 1..NumIds, title \in Titles : addToHistory(id, title)
  \/ clearHistory

SpecHistory == InitHistory /\ [][NextHistory]_vars

\* ------------------------------------- the analytics counter by itself

\* the input of most calls, and the inputs a call may carry instead
PlainTrack == [id |-> <<1>>, time |-> 120]
TrackInputs == {[id |-> <<i>>, time |-> t] : i \in {1, 2}, t \in {120, 345}}

OddTracks == Cardinality({i \in DOMAIN trackLog : trackLog[i] # PlainTrack})

\* nothing is stored, and the storage works or is full
InitAnalytics ==
  /\ stored = [history |-> Absent, analytics |-> Absent]
  /\ \E m \in {x \in StorageModes : x.readable} :
       /\ storageReadable = m.readable
       /\ storageWritable = m.writable
  /\ history = GetFromStorage(stored, "history", <<>>)
  /\ analytics = GetFromStorage(stored, "analytics", EmptyAnalytics)
  /\ clock = 0
  /\ AppInit(0)
  /\ countdown = NoCountdown
  /\ runtime = NoRuntime
  /\ trackLog = <<>>
  /\ hookOps = 0
  /\ callCap = MaxCalls
  /\ last = NoStep

\* trackSearch(id, responseTime), called on its own
trackSearch(id, responseTime) ==
  /\ hookOps < MaxTracks
  /\ hookOps' = hookOps + 1
  /\ TrackSearchOp(id, responseTime)
  /\ Persist(FALSE, TRUE)
  /\ last' = Step("trackSearch", 0, id, "", FALSE, Null, responseTime)
  /\ UNCHANGED <<history, storageWritable, storageReadable, clock, appVars,
                 callCap, viewVars>>

NextAnalytics ==
  \E in \in TrackInputs :
    /\ in # PlainTrack => OddTracks < MaxOddTracks
    /\ trackSearch(in.id, in.time)

SpecAnalytics == InitAnalytics /\ [][NextAnalytics]_vars

\* the identifiers a history list holds
HistoryIds(h) == {h[i].id : i \in DOMAIN h}

\* ------------------------------------------------------ URL state sync

\* setVideoIdToURL(videoId): searchParams.set or delete, then pushState
SetVideoIdToURL(videoId) ==
  /\ urlV' = IF videoId # 0 THEN videoId ELSE 0
  /\ sessionLen' = sessionLen + 1

\* --------------------------------------------------- the metadata endpoint

TitleOf(id) == "Title " \o ToString(id)

\* an entity of the response to a request for id
Ent(id) == [videoId |-> id, title |-> TitleOf(id)]

\* result.data?.unifiedEntities of a response to a request for id: absent or
\* empty, one entity, or two
EntityLists(id) == {<<>>, <<Ent(id)>>, <<Ent(id), Ent(id + 100)>>}

\* result.error: absent, empty, or a message
ErrorFields == {NullStr, "", "Video not found"}

\* the bodies response.json() resolves with, all of the NetflixResponse
\* shape: no entity and any error field, entities and no error field, or an
\* entity beside an error message
Bodies(id) ==
  {[entities |-> <<>>, error |-> e] : e \in ErrorFields}
    \cup {[entities |-> l, error |-> NullStr] : l \in EntityLists(id) \ {<<>>}}
    \cup {[entities |-> <<Ent(id)>>, error |-> "Video not found"]}

\* response.headers.get of X-RateLimit-Remaining and X-RateLimit-Limit, the
\* value of a header that is carried being parsed by parseInt: neither, the
\* first alone, or both, of an exhausted budget ("0" is a truthy string)
HeaderSets ==
  {NoHeaders, [remaining |-> 42, limit |-> HeaderNull],
   [remaining |-> 0, limit |-> 60]}

\* remaining && limit
HasRateLimit(h) == h.remaining # HeaderNull /\ h.limit # HeaderNull

\* Math.round(performance.now() - startTime)
Elapsed == {120, 345}

\* err.message of what fetch() rejects with, and of what response.json()
\* rejects with; both are Errors, so the handlers' fallback messages for a
\* thrown value that is no Error are never used
NetworkErrorMessage == "Failed to fetch"
JsonErrorMessage == "Unexpected token < in JSON at position 0"

\* --------------------------------------------------- fetch orchestrator

IsEmptyStateShown ==
  error = NullStr /\ data = Null /\ ~isLoading /\ comparisonData = <<>>

\* an invocation: its arguments and local entities, with what it has done so
\* far: the identifiers requested, the status of the response of a single
\* search, whether each parsed body held an entity, how it ended, and how
\* often it has called setError(message)
NewCall(kind, ids, requested) ==
  [kind |-> kind, ids |-> ids, entities |-> <<>>, requested |-> requested,
   status |-> "none", got |-> <<>>, outcome |-> "pending", errs |-> 0]

Request(c, i) == [call |-> c, idx |-> i, stage |-> "fetch", ok |-> FALSE]

\* handleSearch(videoId) up to its first await
HandleSearchBegin(videoId, op) ==
  /\ Len(calls) < callCap
  /\ isLoading' = TRUE
  /\ error' = NullStr
  /\ data' = Null
  /\ comparisonData' = <<>>
  /\ SetVideoIdToURL(videoId)
  /\ calls' = Append(calls, NewCall("single", <<videoId>>, <<videoId>>))
  /\ net' = net \cup {Request(Len(calls) + 1, 1)}
  /\ last' = Step(op, Len(calls) + 1, <<videoId>>, "", FALSE, Null, 0)
  /\ UNCHANGED <<hookVars, rateLimit, toasts, trackLog, hookOps, callCap, viewVars>>

\* every request issued up front
BatchIssuesAll(n) == 1..n

\* the requests handleBatchSearch has issued when it first suspends: the loop
\* awaits each fetch before the next iteration
BatchIssuesFirst(n) == IF n >= 1 THEN {1} ELSE {}

\* the whole list
BatchIdsUnlimited(ids) == ids

\* ids.slice(0, 4)
BatchIds(ids) == SliceFront(ids, BATCH_LIMIT)

\* handleBatchSearch(ids) up to its first await
HandleBatchBegin(ids, op) ==
  LET c      == Len(calls) + 1
      issued == BatchIssuesFirst(Len(BatchIds(ids)))
  IN  /\ Len(calls) < callCap
      /\ isLoading' = TRUE
      /\ error' = NullStr
      /\ data' = Null
      /\ comparisonData' = <<>>
      /\ calls' = Append(calls,
           NewCall("batch", ids, SliceFront(BatchIds(ids), Cardinality(issued))))
      /\ net' = net \cup {Request(c, i) : i \in issued}
      /\ last' = Step(op, c, ids, "", FALSE, Null, 0)
      /\ UNCHANGED <<hookVars, rateLimit, urlV, sessionLen, toasts, trackLog,
                     hookOps, callCap, viewVars>>

\* the catch block alone, without the finally block
CatchNoFinally(r, message, op, body) ==
  /\ error' = message
  /\ toasts' = Append(toasts, [kind |-> "error", text |-> message])
  /\ calls' = [calls EXCEPT
       ![r.call].outcome = "error",
       ![r.call].errs = @ + 1,
       ![r.call].got = IF body = Null THEN @
                       ELSE Append(@, body.entities # <<>>)]
  /\ net' = net \ {r}
  /\ last' = Step(op, r.call, calls[r.call].ids, "", r.ok, body, 0)
  /\ UNCHANGED <<hookVars, data, comparisonData, isLoading, rateLimit, urlV,
                 sessionLen, showHistory, mounted, trackLog, hookOps, callCap, viewVars>>

\* the catch and finally blocks of handleSearch and handleBatchSearch, entered
\* from request r with err.message = message
Catch(r, message, op, body) ==
  /\ error' = message
  /\ toasts' = Append(toasts, [kind |-> "error", text |-> message])
  /\ isLoading' = FALSE
  /\ calls' = [calls EXCEPT
       ![r.call].outcome = "error",
       ![r.call].errs = @ + 1,
       ![r.call].got = IF body = Null THEN @
                       ELSE Append(@, body.entities # <<>>)]
  /\ net' = net \ {r}
  /\ last' = Step(op, r.call, calls[r.call].ids, "", r.ok, body, 0)
  /\ UNCHANGED <<hookVars, data, comparisonData, rateLimit, urlV, sessionLen,
                 showHistory, mounted, trackLog, hookOps, callCap, viewVars>>

\* the state a request is in once fetch() has resolved with status ok
Fetched(r, ok) == [r EXCEPT !.stage = "json", !.ok = ok]

\* handleSearch: fetch() resolves; the rate-limit headers are read
SingleFetchResolve(r, ok, h) ==
  /\ r \in net /\ r.stage = "fetch" /\ calls[r.call].kind = "single"
  /\ rateLimit' = IF HasRateLimit(h)
                  THEN [remaining |-> h.remaining, limit |-> h.limit]
                  ELSE rateLimit
  /\ net' = (net \ {r}) \cup {Fetched(r, ok)}
  /\ calls' = [calls EXCEPT
       ![r.call].status = IF ok THEN "ok" ELSE "notok"]
  /\ last' = [Step("singleFetch", r.call, calls[r.call].ids, "", ok, Null, 0)
                EXCEPT !.headers = h]
  /\ UNCHANGED <<hookVars, data, comparisonData, isLoading, error, urlV,
                 sessionLen, showHistory, mounted, toasts, trackLog,
                 hookOps, callCap, viewVars>>

\* handleBatchSearch: fetch() resolves with a response carrying headers h,
\* none of which is read
BatchFetchResolve(r, ok, h) ==
  /\ r \in net /\ r.stage = "fetch" /\ calls[r.call].kind = "batch"
  /\ net' = (net \ {r}) \cup {Fetched(r, ok)}
  /\ last' = [Step("batchFetch", r.call, calls[r.call].ids, "", ok, Null, 0)
                EXCEPT !.headers = h]
  /\ UNCHANGED <<hookVars, data, comparisonData, isLoading, error, rateLimit,
                 urlV, sessionLen, showHistory, mounted, calls, toasts,
                 trackLog, hookOps, callCap, viewVars>>

\* fetch() rejects (a transport error): the handler's catch runs
FetchReject(r) ==
  /\ r \in net /\ r.stage = "fetch"
  /\ Catch(r, NetworkErrorMessage, "fetchReject", Null)

\* response.json() rejects (the body does not parse): the handler's catch runs
JsonReject(r) ==
  /\ r \in net /\ r.stage = "json"
  /\ Catch(r, JsonErrorMessage, "jsonReject", Null)

\* the throw conditions of handleSearch with the status left unchecked
SingleThrowsIgnoringStatus(ok, body) == body.entities = <<>>

\* handleSearch throws: !response.ok, or !result.data?.unifiedEntities?.length
SingleThrows(ok, body) == ~ok \/ body.entities = <<>>

\* the message of the Error handleSearch throws
SingleThrowMessage(ok, body) ==
  IF ~ok
  THEN (IF Truthy(body.error) THEN body.error ELSE "Failed to fetch metadata")
  ELSE "No content found for this Video ID"

\* result.data.unifiedEntities[length - 1]
LastEntity(body) == body.entities[Len(body.entities)]

\* result.data.unifiedEntities[0]
FirstEntity(body) == body.entities[1]

\* handleSearch: response.json() resolves with body and the handler throws
SingleJsonError(r, body) ==
  /\ r \in net /\ r.stage = "json" /\ calls[r.call].kind = "single"
  /\ SingleThrows(r.ok, body)
  /\ Catch(r, SingleThrowMessage(r.ok, body), "singleJson", body)

\* handleSearch: response.json() resolves with body and the search succeeds,
\* Date.now() reading ts and the elapsed time being rt
SingleJsonSuccess(r, body, ts, rt) ==
  LET videoId == calls[r.call].ids[1]
      entity  == FirstEntity(body)
  IN  /\ r \in net /\ r.stage = "json" /\ calls[r.call].kind = "single"
      /\ ~SingleThrows(r.ok, body)
      /\ AddToHistoryAt(videoId, entity.title, ts)
      /\ TrackSearchOp(<<videoId>>, rt)
      /\ Persist(TRUE, TRUE)
      /\ data' = body
      /\ toasts' = Append(toasts,
           [kind |-> "success", text |-> "Found: " \o entity.title])
      /\ isLoading' = FALSE
      /\ calls' = [calls EXCEPT ![r.call].outcome = "ok",
                                ![r.call].got = Append(@, body.entities # <<>>)]
      /\ net' = net \ {r}
      /\ last' = Step("singleJson", r.call, calls[r.call].ids, entity.title,
                      r.ok, body, rt)
      /\ UNCHANGED <<storageWritable, storageReadable, comparisonData, error,
                     rateLimit, urlV,
                     sessionLen, showHistory, mounted, hookOps, callCap, viewVars>>

\* entities after the loop body has seen body: result.data?.unifiedEntities?.[0]
\* is pushed when there is one
Collected(entities, body) ==
  IF body.entities # <<>> THEN Append(entities, FirstEntity(body))
  ELSE entities

\* the loop body throwing for an identifier whose response holds no entity
BatchJsonNextThrowing(r, body) ==
  LET c == r.call
      n == Len(BatchIds(calls[c].ids))
  IN  /\ r \in net /\ r.stage = "json" /\ calls[c].kind = "batch"
      /\ r.idx < n
      /\ IF body.entities = <<>>
         THEN Catch(r, "No content found for this Video ID", "batchJson", body)
         ELSE /\ calls' = [calls EXCEPT
                   ![c].entities = Collected(@, body),
                   ![c].got = Append(@, body.entities # <<>>),
                   ![c].requested = Append(@, BatchIds(calls[c].ids)[r.idx + 1])]
              /\ net' = (net \ {r}) \cup {Request(c, r.idx + 1)}
              /\ last' = Step("batchJson", c, calls[c].ids, "", r.ok, body, 0)
              /\ UNCHANGED <<hookVars, data, comparisonData, isLoading, error,
                             rateLimit, urlV, sessionLen, showHistory, mounted,
                             toasts, trackLog, hookOps, callCap, viewVars>>

\* the loop body tracking a sample for each identifier
BatchJsonNextTracking(r, body) ==
  LET c == r.call
      n == Len(BatchIds(calls[c].ids))
  IN  /\ r \in net /\ r.stage = "json" /\ calls[c].kind = "batch"
      /\ r.idx < n
      /\ TrackSearchOp(<<calls[c].requested[r.idx]>>, 120)
      /\ Persist(FALSE, TRUE)
      /\ calls' = [calls EXCEPT
           ![c].entities = Collected(@, body),
           ![c].got = Append(@, body.entities # <<>>),
           ![c].requested = Append(@, BatchIds(calls[c].ids)[r.idx + 1])]
      /\ net' = (net \ {r}) \cup {Request(c, r.idx + 1)}
      /\ last' = Step("batchJson", c, calls[c].ids, "", r.ok, body, 0)
      /\ UNCHANGED <<history, storageWritable, storageReadable, clock, data,
                     comparisonData, isLoading, error, rateLimit, urlV,
                     sessionLen, showHistory, mounted, toasts, hookOps,
                     callCap, viewVars>>

\* handleBatchSearch: response.json() resolves for an identifier that is not
\* the last; the loop issues the next request
BatchJsonNext(r, body) ==
  LET c == r.call
      n == Len(BatchIds(calls[c].ids))
  IN  /\ r \in net /\ r.stage = "json" /\ calls[c].kind = "batch"
      /\ r.idx < n
      /\ calls' = [calls EXCEPT
           ![c].entities = Collected(@, body),
           ![c].got = Append(@, body.entities # <<>>),
           ![c].requested = Append(@, BatchIds(calls[c].ids)[r.idx + 1])]
      /\ net' = (net \ {r}) \cup {Request(c, r.idx + 1)}
      /\ last' = Step("batchJson", c, calls[c].ids, "", r.ok, body, 0)
      /\ UNCHANGED <<hookVars, data, comparisonData, isLoading, error,
                     rateLimit, urlV, sessionLen, showHistory, mounted,
                     toasts, trackLog, hookOps, callCap, viewVars>>

\* handleBatchSearch: response.json() resolves for the last identifier and
\* nothing was collected: the handler throws
BatchJsonNone(r, body) ==
  LET c == r.call
  IN  /\ r \in net /\ r.stage = "json" /\ calls[c].kind = "batch"
      /\ r.idx >= Len(BatchIds(calls[c].ids))
      /\ Collected(calls[c].entities, body) = <<>>
      /\ Catch(r, "No content found for any of the provided IDs",
               "batchJson", body)

\* the success branch recording the first collected entity in the history, as
\* handleSearch records its entity
BatchJsonSuccessRecording(r, body, rt) ==
  LET c        == r.call
      entities == Collected(calls[c].entities, body)
  IN  /\ r \in net /\ r.stage = "json" /\ calls[c].kind = "batch"
      /\ r.idx >= Len(BatchIds(calls[c].ids))
      /\ entities # <<>>
      /\ AddToHistoryAt(entities[1].videoId, entities[1].title, clock)
      /\ TrackSearchOp(calls[c].ids, rt)
      /\ Persist(TRUE, TRUE)
      /\ comparisonData' = entities
      /\ toasts' = Append(toasts,
           [kind |-> "success",
            text |-> "Comparing " \o ToString(Len(entities)) \o " titles"])
      /\ isLoading' = FALSE
      /\ calls' = [calls EXCEPT ![c].entities = entities,
                                ![c].got = Append(@, body.entities # <<>>),
                                ![c].outcome = "ok"]
      /\ net' = net \ {r}
      /\ last' = Step("batchJson", c, calls[c].ids, "", r.ok, body, rt)
      /\ UNCHANGED <<storageWritable, storageReadable, data, error, rateLimit,
                     urlV, sessionLen, showHistory, mounted, hookOps, callCap,
                     viewVars>>

\* handleBatchSearch: response.json() resolves for the last identifier and
\* the batch succeeds, the elapsed time being rt
BatchJsonSuccess(r, body, rt) ==
  LET c        == r.call
      entities == Collected(calls[c].entities, body)
  IN  /\ r \in net /\ r.stage = "json" /\ calls[c].kind = "batch"
      /\ r.idx >= Len(BatchIds(calls[c].ids))
      /\ entities # <<>>
      /\ TrackSearchOp(calls[c].ids, rt)
      /\ Persist(FALSE, TRUE)
      /\ comparisonData' = entities
      /\ toasts' = Append(toasts,
           [kind |-> "success",
            text |-> "Comparing " \o ToString(Len(entities)) \o " titles"])
      /\ isLoading' = FALSE
      /\ calls' = [calls EXCEPT ![c].entities = entities,
                                ![c].got = Append(@, body.entities # <<>>),
                                ![c].outcome = "ok"]
      /\ net' = net \ {r}
      /\ last' = Step("batchJson", c, calls[c].ids, "", r.ok, body, rt)
      /\ UNCHANGED <<history, storageWritable, storageReadable, clock, data,
                     error, rateLimit,
                     urlV, sessionLen, showHistory, mounted, hookOps, callCap, viewVars>>

\* ------------------------------------------------------------ the page

\* the identifiers a single search is given
SingleIds == {1, 2}

\* the identifier lists a batch search is given: 1, 2 and 1, ..., MaxBatchIds
BatchInputs == {[i \in 1..k |-> i] : k \in {2, MaxBatchIds}}

\* a first visit, or a return to a page that has persisted one history entry;
\* the URL carries no identifier or identifier 1
Init ==
  /\ \E n \in {0, 1} :
       /\ stored = [history |-> IF n = 0 THEN Absent ELSE Item(Recorded(n)),
                    analytics |-> Absent]
       /\ clock = n
  /\ storageWritable = TRUE
  /\ storageReadable = TRUE
  /\ history = GetFromStorage(stored, "history", <<>>)
  /\ analytics = GetFromStorage(stored, "analytics", EmptyAnalytics)
  /\ \E v \in {0, 1} : AppInit(v)
  /\ countdown = NoCountdown
  /\ runtime = NoRuntime
  /\ trackLog = <<>>
  /\ hookOps = 0
  /\ callCap = MaxCalls
  /\ last = NoStep

\* the effect that loads the identifier of the URL, when there is one
MountSearch ==
  /\ ~mounted /\ urlV # 0
  /\ mounted' = TRUE
  /\ HandleSearchBegin(urlV, "mount")
  /\ UNCHANGED showHistory

\* the same effect when the URL carries no identifier
MountIdle ==
  /\ ~mounted /\ urlV = 0
  /\ mounted' = TRUE
  /\ last' = Step("mount", 0, <<>>, "", FALSE, Null, 0)
  /\ UNCHANGED <<hookVars, data, comparisonData, isLoading, error, rateLimit,
                 urlV, sessionLen, showHistory, calls, net, toasts, trackLog,
                 hookOps, callCap, viewVars>>

\* SearchForm: the input, enabled while nothing loads, takes the focus
FocusInput ==
  /\ mounted /\ ~isLoading /\ ~showHistory
  /\ showHistory' = TRUE
  /\ last' = Step("focus", 0, <<>>, "", FALSE, Null, 0)
  /\ UNCHANGED <<hookVars, data, comparisonData, isLoading, error, rateLimit,
                 urlV, sessionLen, mounted, calls, net, toasts, trackLog,
                 hookOps, callCap, viewVars>>

\* SearchForm: the timer set by onBlur closes the dropdown
BlurTimeout ==
  /\ mounted /\ showHistory
  /\ showHistory' = FALSE
  /\ last' = Step("blur", 0, <<>>, "", FALSE, Null, 0)
  /\ UNCHANGED <<hookVars, data, comparisonData, isLoading, error, rateLimit,
                 urlV, sessionLen, mounted, calls, net, toasts, trackLog,
                 hookOps, callCap, viewVars>>

\* SearchForm.handleSubmit with one identifier (the input and the button are
\* disabled while isLoading)
SubmitSearch(id) ==
  /\ mounted /\ ~isLoading
  /\ HandleSearchBegin(id, "submit")
  /\ showHistory' = FALSE
  /\ UNCHANGED mounted

\* SearchForm.handleSubmit in batch mode or with a comma in the input
SubmitBatch(ids) ==
  /\ mounted /\ ~isLoading
  /\ HandleBatchBegin(ids, "submitBatch")
  /\ showHistory' = FALSE
  /\ UNCHANGED mounted

\* EmptyState: an example identifier is clicked
ExampleClick(id) ==
  /\ mounted /\ IsEmptyStateShown
  /\ HandleSearchBegin(id, "example")
  /\ UNCHANGED <<showHistory, mounted>>

\* SearchForm.handleHistoryClick on an item of the open dropdown
HistoryClick(id) ==
  /\ mounted /\ showHistory
  /\ id \in HistoryIds(history)
  /\ HandleSearchBegin(id, "historyClick")
  /\ showHistory' = FALSE
  /\ UNCHANGED mounted

\* handleBack, from the back button shown with a result while nothing loads
HandleBack ==
  /\ mounted /\ ~isLoading /\ (data # Null \/ comparisonData # <<>>)
  /\ data' = Null
  /\ comparisonData' = <<>>
  /\ error' = NullStr
  /\ SetVideoIdToURL(0)
  /\ last' = Step("handleBack", 0, <<>>, "", FALSE, Null, 0)
  /\ UNCHANGED <<hookVars, isLoading, rateLimit, showHistory, mounted, calls,
                 net, toasts, trackLog, hookOps, callCap, viewVars>>

\* ComparisonView's onClose
CloseComparison ==
  /\ mounted /\ comparisonData # <<>>
  /\ comparisonData' = <<>>
  /\ last' = Step("closeComparison", 0, <<>>, "", FALSE, Null, 0)
  /\ UNCHANGED <<hookVars, data, isLoading, error, rateLimit, urlV,
                 sessionLen, showHistory, mounted, calls, net, toasts,
                 trackLog, hookOps, callCap, viewVars>>

\* the clear-history button: clearHistory()
ClearHistoryClick ==
  /\ mounted
  /\ history' = <<>>
  /\ Persist(TRUE, FALSE)
  /\ last' = Step("clearHistory", 0, <<>>, "", FALSE, Null, 0)
  /\ UNCHANGED <<analytics, storageWritable, storageReadable, clock, appVars, trackLog,
                 hookOps, callCap, viewVars>>

Next ==
  \/ MountSearch
  \/ MountIdle
  \/ FocusInput
  \/ BlurTimeout
  \/ \E id \in SingleIds : SubmitSearch(id)
  \/ \E ids \in BatchInputs : SubmitBatch(ids)
  \/ \E id \in SingleIds : ExampleClick(id)
  \/ \E id \in SingleIds : HistoryClick(id)
  \/ HandleBack
  \/ CloseComparison
  \/ ClearHistoryClick
  \/ \E r \in net, ok \in BOOLEAN, h \in HeaderSets : SingleFetchResolve(r, ok, h)
  \/ \E r \in net, ok \in BOOLEAN, h \in HeaderSets : BatchFetchResolve(r, ok, h)
  \/ \E r \in net : FetchReject(r)
  \/ \E r \in net : JsonReject(r)
  \/ \E r \in net : \E body \in Bodies(calls[r.call].requested[r.idx]) :
       \/ SingleJsonError(r, body)
       \/ \E ts \in Now, rt \in Elapsed : SingleJsonSuccess(r, body, ts, rt)
       \/ BatchJsonNext(r, body)
       \/ BatchJsonNone(r, body)
       \/ \E rt \in Elapsed : BatchJsonSuccess(r, body, rt)

Spec == Init /\ [][Next]_vars

\* a request in flight is answered: fetch() or response.json() settles and
\* the continuation of the handler that awaits it runs
Respond ==
  \/ \E r \in net, ok \in BOOLEAN, h \in HeaderSets : SingleFetchResolve(r, ok, h)
  \/ \E r \in net, ok \in BOOLEAN, h \in HeaderSets : BatchFetchResolve(r, ok, h)
  \/ \E r \in net : FetchReject(r)
  \/ \E r \in net : JsonReject(r)
  \/ \E r \in net : \E body \in Bodies(calls[r.call].requested[r.idx]) :
       \/ SingleJsonError(r, body)
       \/ \E ts \in Now, rt \in Elapsed : SingleJsonSuccess(r, body, ts, rt)
       \/ BatchJsonNext(r, body)
       \/ BatchJsonNone(r, body)
       \/ \E rt \in Elapsed : BatchJsonSuccess(r, body, rt)

\* the same, the responses carrying no rate-limit header, the clock standing
\* still and the elapsed time being 120: none of these decides how a search
\* ends
RespondPlain ==
  \/ \E r \in net, ok \in BOOLEAN : SingleFetchResolve(r, ok, NoHeaders)
  \/ \E r \in net, ok \in BOOLEAN : BatchFetchResolve(r, ok, NoHeaders)
  \/ \E r \in net : FetchReject(r)
  \/ \E r \in net : JsonReject(r)
  \/ \E r \in net : \E body \in Bodies(calls[r.call].requested[r.idx]) :
       \/ SingleJsonError(r, body)
       \/ SingleJsonSuccess(r, body, clock, 120)
       \/ BatchJsonNext(r, body)
       \/ BatchJsonNone(r, body)
       \/ BatchJsonSuccess(r, body, 120)

\* the searches of the page, started on mount, from the form or from an
\* example, and their ends
NextLive ==
  \/ MountSearch
  \/ MountIdle
  \/ \E id \in SingleIds : SubmitSearch(id)
  \/ \E ids \in BatchInputs : SubmitBatch(ids)
  \/ \E id \in SingleIds : ExampleClick(id)
  \/ HandleBack
  \/ CloseComparison
  \/ RespondPlain

\* the page when every request is eventually answered (the user's actions
\* are under no obligation to happen)
SpecLive == Init /\ [][NextLive]_vars /\ WF_vars(RespondPlain)

\* ------------------------------------------ the page, searches overlapping

\* a return to a page that has persisted one history entry, followed through
\* two searches, single ones or batches over two identifiers: one after the
\* other or, with the history dropdown open, a click on one of its items
\* starting a search while an earlier one is awaiting its response
InitOverlap ==
  /\ stored = [history |-> Item(Recorded(1)), analytics |-> Absent]
  /\ clock = 1
  /\ storageWritable = TRUE
  /\ storageReadable = TRUE
  /\ history = GetFromStorage(stored, "history", <<>>)
  /\ analytics = GetFromStorage(stored, "analytics", EmptyAnalytics)
  /\ AppInit(0)
  /\ countdown = NoCountdown
  /\ runtime = NoRuntime
  /\ trackLog = <<>>
  /\ hookOps = 0
  /\ callCap = MaxOverlapCalls
  /\ last = NoStep

NextOverlap ==
  \/ MountIdle
  \/ FocusInput
  \/ BlurTimeout
  \/ \E id \in SingleIds : SubmitSearch(id)
  \/ \E id \in SingleIds : ExampleClick(id)
  \/ \E id \in SingleIds : HistoryClick(id)
  \/ SubmitBatch(<<1, 2>>)
  \/ HandleBack
  \/ CloseComparison
  \/ \E r \in net, ok \in BOOLEAN, h \in HeaderSets : SingleFetchResolve(r, ok, h)
  \/ \E r \in net, ok \in BOOLEAN, h \in HeaderSets : BatchFetchResolve(r, ok, h)
  \/ \E r \in net : FetchReject(r)
  \/ \E r \in net : JsonReject(r)
  \/ \E r \in net : \E body \in Bodies(calls[r.call].requested[r.idx]) :
       \/ SingleJsonError(r, body)
       \/ \E ts \in Now, rt \in Elapsed : SingleJsonSuccess(r, body, ts, rt)
       \/ BatchJsonNext(r, body)
       \/ BatchJsonNone(r, body)
       \/ \E rt \in Elapsed : BatchJsonSuccess(r, body, rt)

SpecOverlap == InitOverlap /\ [][NextOverlap]_vars

\* the same when every request is eventually answered
SpecOverlapLive == SpecOverlap /\ WF_vars(Respond)

\* ------------------------------ the page, a batch after a single search

\* a return to a page that has persisted one history entry, followed through
\* searches that run one after the other: single searches for identifier 2
\* and batches over 1, 2, with plain responses
InitFrame ==
  /\ stored = [history |-> Item(Recorded(1)), analytics |-> Absent]
  /\ clock = 1
  /\ storageWritable = TRUE
  /\ storageReadable = TRUE
  /\ history = GetFromStorage(stored, "history", <<>>)
  /\ analytics = GetFromStorage(stored, "analytics", EmptyAnalytics)
  /\ AppInit(0)
  /\ countdown = NoCountdown
  /\ runtime = NoRuntime
  /\ trackLog = <<>>
  /\ hookOps = 0
  /\ callCap = MaxFrameCalls
  /\ last = NoStep

NextFrame ==
  \/ MountIdle
  \/ SubmitSearch(2)
  \/ SubmitBatch(<<1, 2>>)
  \/ HandleBack
  \/ CloseComparison
  \/ RespondPlain

SpecFrame == InitFrame /\ [][NextFrame]_vars

\* --------------------------------------------------- a countdown by itself

\* a page with nothing stored, loaded without an identifier, at rest
IdlePage ==
  /\ stored = [history |-> Absent, analytics |-> Absent]
  /\ storageWritable = TRUE
  /\ storageReadable = TRUE
  /\ history = GetFromStorage(stored, "history", <<>>)
  /\ analytics = GetFromStorage(stored, "analytics", EmptyAnalytics)
  /\ clock = 0
  /\ AppInit(0)
  /\ trackLog = <<>>
  /\ hookOps = 0
  /\ callCap = 0
  /\ last = NoStep

\* availabilityStartTime in milliseconds after the entity is first rendered:
\* past, that very instant, or ahead by a millisecond, by seconds, by just
\* over a minute, an hour, a day
TargetDates == {-5000, 0, 1, 2000, 3500, 61000, 3601500, 86401000}

\* the time from one run of the interval callback to the next: setInterval
\* fires after 1000 ms, or later when the event loop is busy
TickDelays == {1000, 1250}

\* TitleHeader is rendered for an entity
InitCountdown ==
  /\ IdlePage
  /\ \E t \in TargetDates : countdown = CountdownAt(t, 0)
  /\ runtime = NoRuntime

\* the interval callback: setTimeLeft(calculateTimeLeft())
Tick(delay) ==
  /\ countdown.isFuture
  /\ countdown.ticks < MaxTicks
  /\ countdown' =
       [countdown EXCEPT
          !.now = @ + delay,
          !.timeLeft = CalculateTimeLeft(countdown.target,
                                         countdown.now + delay),
          !.prev = countdown.timeLeft,
          !.ticks = @ + 1]
  /\ UNCHANGED <<hookVars, appVars, runtime, trackLog, hookOps, callCap, last>>

\* TitleHeader is rendered again: isFutureDate is evaluated anew, and
\* CountdownTimer is unmounted when the date is no longer in the future
Rerender ==
  /\ countdown.isFuture
  /\ countdown' =
       [countdown EXCEPT
          !.isFuture = IsFutureDate(countdown.target, countdown.now)]
  /\ countdown' # countdown
  /\ UNCHANGED <<hookVars, appVars, runtime, trackLog, hookOps, callCap, last>>

NextCountdown ==
  \/ \E delay \in TickDelays : Tick(delay)
  \/ Rerender

SpecCountdown == InitCountdown /\ [][NextCountdown]_vars

\* ----------------------------------------------------- a runtime by itself

\* an entity with runtimeSec = seconds is about to be rendered
InitRuntime ==
  /\ IdlePage
  /\ countdown = NoCountdown
  /\ \E seconds \in 0..MaxRuntimeSec :
       runtime = [seconds |-> seconds, text |-> ""]

\* formatRuntime(entity.runtimeSec), as in exportAsMarkdown
RenderRuntime ==
  /\ runtime.text = ""
  /\ runtime' = [runtime EXCEPT !.text = FormatRuntime(runtime.seconds)]
  /\ UNCHANGED <<hookVars, appVars, countdown, trackLog, hookOps, callCap,
                 last>>

NextRuntime == RenderRuntime

SpecRuntime == InitRuntime /\ [][NextRuntime]_vars

\* ------------------------------------------------- claims: the hooks

\* C1: the history holds at most one entry per identifier, and right after
\* addToHistory(id, title) its first entry is the one for id, with the given
\* title and the time of the call (no earlier than any timestamp already
\* there), followed by the entries it held before for the other identifiers,
\* in their order.
C1_UniqueAndFront ==
  /\ \A i, j \in DOMAIN history : history[i].id = history[j].id => i = j
  /\ last.op = "addToHistory" =>
       LET others == SelectSeq(last.history, LAMBDA e : e.id # last.id)
       IN  /\ history # <<>>
           /\ Head(history) =
                [id |-> last.id, title |-> last.title, timestamp |-> clock]
           /\ \A i \in DOMAIN last.history :
                last.history[i].timestamp <= Head(history).timestamp
           /\ Len(history) <= Len(others) + 1
           /\ \A i \in 2..Len(history) : history[i] = others[i - 1]
           /\ Len(last.history) < MAX_HISTORY => Len(history) = Len(others) + 1

\* an identifier already in the list, not at its front, has been recorded again
C1_Witness ==
  /\ last.op = "addToHistory"
  /\ \E i \in 2..Len(last.history) : last.history[i].id = last.id
  /\ Len(history) = Len(last.history)
  /\ Len(history) >= 3
  /\ Head(history).timestamp > last.history[1].timestamp

\* C2: the history never holds more than 20 entries, and recording an
\* identifier that a list of 20 does not hold drops exactly its last entry and
\* keeps the other 19, in order, behind the new one.
C2_CapDropsOldest ==
  /\ Len(history) <= MAX_HISTORY
  /\ ( /\ last.op = "addToHistory"
       /\ Len(last.history) = MAX_HISTORY
       /\ last.id \notin HistoryIds(last.history) )
     => /\ Len(history) = MAX_HISTORY
        /\ Head(history).id = last.id
        /\ Tail(history) = SubSeq(last.history, 1, MAX_HISTORY - 1)
        /\ last.history[MAX_HISTORY].id \notin HistoryIds(history)

\* a 21st identifier has been recorded into a full list
C2_Witness ==
  /\ last.op = "addToHistory"
  /\ Len(last.history) = MAX_HISTORY
  /\ last.id \notin HistoryIds(last.history)
  /\ Len(history) = MAX_HISTORY

\* the response times of the last k trackSearch calls, in arrival order
LastTimes(k) ==
  [i \in 1..k |-> trackLog[Len(trackLog) - k + i].time]

\* C3: from the empty snapshot, after n trackSearch calls searchTimes holds
\* the last min(n, 50) response times in arrival order and totalSearches is n.
C3_WindowAndTotal ==
  /\ analytics.totalSearches = Len(trackLog)
  /\ analytics.searchTimes =
       LastTimes(Min(Len(trackLog), SEARCH_TIMES_CAP))

\* more than 50 calls have been tracked, and the sample evicted first was
\* not the plain one
C3_Witness ==
  /\ Len(trackLog) > SEARCH_TIMES_CAP
  /\ trackLog[1].time # PlainTrack.time
  /\ Len(analytics.searchTimes) = SEARCH_TIMES_CAP
  /\ analytics.totalSearches = Len(trackLog)

\* C4 as stated: avgResponseTime is the arithmetic mean of the window.
C4_AvgIsExactMean ==
  analytics.searchTimes # <<>> =>
    analytics.avgResponseTime * Len(analytics.searchTimes)
      = Sum(analytics.searchTimes)

\* C4, amended: avgResponseTime is the arithmetic mean of the window rounded
\* to the nearest integer, a tie going up (mean - 1/2 < avg <= mean + 1/2).
C4_AvgIsRoundedWindowMean ==
  analytics.searchTimes # <<>> =>
    LET n == Len(analytics.searchTimes)
        d == 2 * (analytics.avgResponseTime * n - Sum(analytics.searchTimes))
    IN  -n < d /\ d <= n

\* samples have left the window and the lifetime mean rounds to another value
C4_Witness ==
  /\ Len(trackLog) > SEARCH_TIMES_CAP
  /\ last.op = "trackSearch"
  /\ analytics.avgResponseTime #
       MathRoundDiv(Sum(LastTimes(Len(trackLog))), Len(trackLog))

\* ---------------------------------------- claims: the fetch orchestrator

IsBatch(c) == calls[c].kind = "batch"
IsSingle(c) == calls[c].kind = "single"

\* the number of identifiers of call c that are to be requested
Wanted(c) == Min(Len(calls[c].ids), BATCH_LIMIT)

\* the requests of call c that are outstanding
Outstanding(c) == {r \in net : r.call = c}

\* C5: a batch search requests only the first 4 identifiers of its list, in
\* list order, all of them when it succeeds, and neither its local entities
\* nor the comparison set ever hold more than 4 entities.
C5_BatchFirstFour ==
  /\ Len(comparisonData) <= BATCH_LIMIT
  /\ \A c \in DOMAIN calls : IsBatch(c) =>
       /\ Len(calls[c].requested) <= BATCH_LIMIT
       /\ Len(calls[c].requested) <= Len(calls[c].ids)
       /\ \A i \in DOMAIN calls[c].requested :
            calls[c].requested[i] = calls[c].ids[i]
       /\ \A r \in Outstanding(c) : r.idx <= BATCH_LIMIT
       /\ Len(calls[c].entities) <= BATCH_LIMIT
       /\ calls[c].outcome = "ok" => Len(calls[c].requested) = Wanted(c)

\* a batch over more than 4 identifiers has ended with 4 entities compared
C5_Witness ==
  \E c \in DOMAIN calls :
    /\ IsBatch(c)
    /\ Len(calls[c].ids) > BATCH_LIMIT
    /\ calls[c].outcome = "ok"
    /\ calls[c].requested = SubSeq(calls[c].ids, 1, BATCH_LIMIT)
    /\ Len(comparisonData) = BATCH_LIMIT

\* C6 as stated: a request of a batch that fails (transport error, body that
\* does not parse, error response without entities) is skipped: the batch
\* still requests every remaining identifier, sets no error for it, and ends
\* displaying the entities it collected.
C6_FailureDoesNotAbort ==
  \A c \in DOMAIN calls : IsBatch(c) =>
    /\ calls[c].outcome # "pending" =>
         Len(calls[c].requested) = Wanted(c)
    /\ calls[c].entities # <<>> => calls[c].outcome # "error"
    /\ (last.call = c /\ last.op \in {"fetchReject", "jsonReject"}) =>
         error = NullStr

AggregateMessage == "No content found for any of the provided IDs"

\* C7: a batch over identifiers that all return zero entities fails exactly
\* once, after the response to its last request: it has set no error before,
\* the one it sets is the aggregate message, and that step leaves the
\* analytics snapshot and the comparison set (empty, unless another batch
\* ran beside it) as they were.  A batch throws on a parsed body only then,
\* and no step of a batch that has not succeeded changes the analytics.
C7_OneAggregateFailure ==
  \A c \in DOMAIN calls : IsBatch(c) =>
    LET allEmpty == \A i \in DOMAIN calls[c].got : ~calls[c].got[i]
        complete == Len(calls[c].got) = Wanted(c)
    IN  /\ calls[c].outcome = "pending" => calls[c].errs = 0
        /\ calls[c].errs <= 1
        /\ (last.call = c /\ calls[c].outcome # "ok") =>
             analytics = last.analytics
        /\ (complete /\ allEmpty) =>
             /\ calls[c].outcome = "error"
             /\ calls[c].errs = 1
             /\ calls[c].entities = <<>>
        /\ (last.call = c /\ last.op = "batchJson"
              /\ calls[c].outcome = "error") =>
             /\ complete /\ allEmpty
             /\ Len(calls[c].requested) = Wanted(c)
             /\ Outstanding(c) = {}
             /\ error = AggregateMessage
             /\ toasts # <<>>
             /\ toasts[Len(toasts)] =
                  [kind |-> "error", text |-> AggregateMessage]
             /\ analytics = last.analytics
             /\ comparisonData = last.comparisonData
             /\ (\A b \in DOMAIN calls : IsBatch(b) => b = c) =>
                  comparisonData = <<>>

\* a batch over 5 identifiers has had 4 bodies without entities and has failed
C7_Witness ==
  \E c \in DOMAIN calls :
    /\ IsBatch(c)
    /\ last.call = c /\ last.op = "batchJson"
    /\ calls[c].got = <<FALSE, FALSE, FALSE, FALSE>>
    /\ calls[c].outcome = "error"
    /\ error = AggregateMessage

\* C8: a batch search has at most one request outstanding, the one for the
\* identifier it requested last, and it has requested identifier k + 1 only
\* once the body of the response for identifier k was parsed.
C8_OneOutstanding ==
  \A c \in DOMAIN calls : IsBatch(c) =>
    /\ Cardinality(Outstanding(c)) <= 1
    /\ \A r \in Outstanding(c) : r.idx = Len(calls[c].requested)
    /\ Len(calls[c].requested) <= Len(calls[c].got) + 1
    /\ Outstanding(c) # {} => Len(calls[c].requested) = Len(calls[c].got) + 1

\* the body of the second response of a batch is being read, the first parsed
C8_Witness ==
  \E c \in DOMAIN calls :
    /\ IsBatch(c)
    /\ Len(calls[c].got) = 1
    /\ \E r \in Outstanding(c) : r.idx = 2 /\ r.stage = "json"

\* C9: a single search succeeds only on a successful status with a body that
\* holds an entity.  Once the body is parsed, a non-successful status ends it
\* in error with the body's error message, or "Failed to fetch metadata" when
\* the body has none (or an empty one), whether or not the body holds
\* entities; a successful status without entities ends it in error with the
\* not-found message.  An error step displays no entity.
C9_SingleClassification ==
  /\ \A c \in DOMAIN calls : IsSingle(c) =>
       /\ calls[c].outcome = "ok" =>
            calls[c].status = "ok" /\ calls[c].got = <<TRUE>>
       /\ (calls[c].status = "notok" /\ calls[c].got # <<>>) =>
            calls[c].outcome = "error"
       /\ (calls[c].status = "ok" /\ calls[c].got = <<FALSE>>) =>
            calls[c].outcome = "error"
  /\ last.op = "singleJson" =>
       LET c == last.call
           b == last.body
       IN  IF ~last.ok
           THEN /\ calls[c].outcome = "error"
                /\ error = IF b.error \notin {NullStr, ""} THEN b.error
                           ELSE "Failed to fetch metadata"
                /\ data = last.data
           ELSE IF b.entities = <<>>
           THEN /\ calls[c].outcome = "error"
                /\ error = "No content found for this Video ID"
                /\ data = last.data
           ELSE /\ calls[c].outcome = "ok"
                /\ data = b
                /\ ~isLoading

\* an error status came with a body holding both entities and a message
C9_Witness ==
  /\ last.op = "singleJson"
  /\ ~last.ok
  /\ last.body.entities # <<>>
  /\ last.body.error = "Video not found"
  /\ error = "Video not found"
  /\ data = Null

\* C10: the step that ends a single search in success records one history
\* entry (the searched identifier, the title of the first entity of the body,
\* the time of the step) in front of the others, tracks one sample (the
\* identifier and the elapsed time) and displays the body; every other step of
\* a single search, and the step that ends it in error whatever the failure,
\* leaves the history list and the analytics snapshot as they were.
C10_SingleEffects ==
  (last.call \in DOMAIN calls /\ IsSingle(last.call)) =>
    LET c     == last.call
        id    == calls[c].ids[1]
        ended == last.op \in {"singleJson", "fetchReject", "jsonReject"}
    IN  /\ calls[c].outcome = "ok" => last.op = "singleJson"
        /\ calls[c].outcome = "error" => ended
        /\ IF calls[c].outcome = "ok"
           THEN LET first == last.body.entities[1]
                IN  /\ Head(history) =
                         [id |-> id, title |-> first.title, timestamp |-> clock]
                    /\ Tail(history) =
                         SliceFront(SelectSeq(last.history, LAMBDA e : e.id # id),
                                    MAX_HISTORY - 1)
                    /\ analytics.totalSearches = last.analytics.totalSearches + 1
                    /\ analytics.searchTimes =
                         SliceBack(Append(last.analytics.searchTimes, last.rt),
                                   SEARCH_TIMES_CAP)
                    /\ Head(analytics.recentSearches) =
                         [id |-> <<id>>, time |-> last.rt]
                    /\ Tail(analytics.recentSearches) =
                         SliceFront(last.analytics.recentSearches, RECENT_CAP - 1)
                    /\ data = last.body
                    /\ data.entities[1] = first
                    /\ toasts[Len(toasts)] =
                         [kind |-> "success", text |-> "Found: " \o first.title]
           ELSE /\ history = last.history
                /\ analytics = last.analytics

\* a single search for a recorded identifier has succeeded on a body of two
\* entities
C10_Witness ==
  /\ last.call \in DOMAIN calls
  /\ IsSingle(last.call)
  /\ calls[last.call].outcome = "ok"
  /\ Len(last.body.entities) = 2
  /\ last.history # <<>>
  /\ Len(history) = Len(last.history)
  /\ analytics.totalSearches = 1

\* ------------------------------------------------ claims: the page state

\* the steps in which a response arrives
IsResponseStep == last.op \in {"singleFetch", "batchFetch"}

\* C11 as stated: the step in which a response arrives, to a single search or
\* to a request of a batch, with a successful status or not, sets the
\* rate-limit state to the values of its two headers when it carries both,
\* and every other step leaves the rate-limit state as it was.
C11_RateLimitFollowsHeaders ==
  IF IsResponseStep /\ HasRateLimit(last.headers)
  THEN rateLimit = [remaining |-> last.headers.remaining,
                    limit |-> last.headers.limit]
  ELSE rateLimit = last.rateLimit

\* C12 as stated: setVideoIdToURL replaces the current entry of the session
\* history, so the history is as long after any searches and back actions as
\* it was at page load.
C12_SessionLengthConstant == sessionLen = 0

\* call c has ended and a later call was started before it did
IsStale(c) == c \in DOMAIN calls /\ c < Len(calls)

\* C13 as stated: the continuation of a search that is no longer the one
\* started last, running after the search started last has ended, is
\* discarded: it leaves the displayed entity, error message and loading flag
\* as they were.
C13_StaleResponseDiscarded ==
  ( /\ IsStale(last.call)
    /\ last.op \in {"singleJson", "fetchReject", "jsonReject"}
    /\ calls[Len(calls)].outcome # "pending" )
  => /\ data = last.data
     /\ error = last.error
     /\ isLoading = last.isLoading

\* the numbers an invocation can bear
CallIds == 1..(IF MaxCalls > MaxOverlapCalls THEN MaxCalls ELSE MaxOverlapCalls)

IsPending(c) == c \in DOMAIN calls /\ calls[c].outcome = "pending"
HasEnded(c) == c \in DOMAIN calls /\ calls[c].outcome # "pending"

\* a result (entity or comparison set) or an error message is displayed
IsSettledView ==
  /\ ~isLoading
  /\ data # Null \/ comparisonData # <<>> \/ error # NullStr

\* C14: when every request is eventually answered, every search that has
\* been started, single or batch, ends, and the step that ends it, whatever
\* the failure, leaves the loading flag false with a result or an error
\* message displayed.
C14_SearchSettles ==
  /\ [](\A c \in CallIds : (last.call = c /\ HasEnded(c)) => IsSettledView)
  /\ \A c \in CallIds : IsPending(c) ~> (HasEnded(c) /\ IsSettledView)

\* a batch search has ended on a rejected request after a collected entity
C14_Witness ==
  \E c \in DOMAIN calls :
    /\ IsBatch(c)
    /\ last.call = c /\ last.op \in {"fetchReject", "jsonReject"}
    /\ calls[c].got # <<>>
    /\ calls[c].outcome = "error"
    /\ ~isLoading /\ error # NullStr

\* ------------------------------------------- claims: the storage adapter

\* the hook operations called on their own
IsHookStep == last.op \in {"addToHistory", "clearHistory", "trackSearch"}

\* C15: a hook loaded from a key that is absent, that cannot be read, or that
\* holds an item JSON.parse rejects starts from the caller's default, and from
\* the persisted value otherwise; an addToHistory, clearHistory or trackSearch
\* whose write fails still updates the value in memory, leaves what is
\* persisted under either key as it was, and sets no error; a write that
\* succeeds persists the new value under its key alone.
C15_StorageFailuresAbsorbed ==
  /\ error = NullStr
  /\ last.op = "load" =>
       /\ analytics = EmptyAnalytics
       /\ IF storageReadable /\ stored.history.present /\ stored.history.parses
          THEN history = stored.history.value
          ELSE history = <<>>
  /\ IsHookStep =>
       /\ last.op = "addToHistory" => Head(history).id = last.id
       /\ last.op = "clearHistory" => history = <<>>
       /\ last.op = "trackSearch" =>
            analytics.totalSearches = last.analytics.totalSearches + 1
       /\ IF ~storageWritable THEN stored = last.stored
          ELSE IF last.op = "trackSearch"
          THEN /\ stored.analytics = Item(analytics)
               /\ stored.history = last.stored.history
          ELSE /\ stored.history = Item(history)
               /\ stored.analytics = last.stored.analytics

\* the history key held a damaged item, the list started empty, and an entry
\* was recorded while the storage refused the write
C15_Witness ==
  /\ last.op = "addToHistory"
  /\ ~storageWritable
  /\ last.stored.history = Unparsable
  /\ stored.history = Unparsable
  /\ last.history = <<>>
  /\ Len(history) = 1

\* ------------------------------------------------- claims: the URL state

\* C16 as stated, its second half: the query parameter v is absent when no
\* single search is active, that is right after back and while a comparison
\* set is the displayed result.
C16_UrlAbsentWithoutSingle ==
  /\ last.op = "handleBack" => urlV = 0
  /\ comparisonData # <<>> => urlV = 0

\* --------------------------------------------- claims: a batch's success

\* the entities call c has been given, in request order: the first entity of
\* each body that held one
RECURSIVE EntitiesGot(_, _)
EntitiesGot(c, n) ==
  IF n = 0 THEN <<>>
  ELSE IF calls[c].got[n]
       THEN Append(EntitiesGot(c, n - 1), Ent(calls[c].requested[n]))
       ELSE EntitiesGot(c, n - 1)

\* C17: one sample has been tracked for each search that has succeeded, and
\* the step that ends a batch in success tracks one sample for the whole
\* batch (totalSearches grows by 1, the window takes one elapsed time, the
\* recent list one pair bearing the whole identifier list) and displays as
\* the comparison set the entities collected, in request order.
C17_BatchTrackedOnce ==
  /\ Len(trackLog) =
       Cardinality({c \in DOMAIN calls : calls[c].outcome = "ok"})
  /\ \A c \in DOMAIN calls :
       (IsBatch(c) /\ last.call = c /\ calls[c].outcome = "ok") =>
         /\ analytics.totalSearches = last.analytics.totalSearches + 1
         /\ analytics.searchTimes =
              SliceBack(Append(last.analytics.searchTimes, last.rt),
                        SEARCH_TIMES_CAP)
         /\ analytics.recentSearches =
              SliceFront(<<[id |-> calls[c].ids, time |-> last.rt]>>
                           \o last.analytics.recentSearches, RECENT_CAP)
         /\ trackLog[Len(trackLog)] = [id |-> calls[c].ids, time |-> last.rt]
         /\ comparisonData = EntitiesGot(c, Len(calls[c].got))
         /\ comparisonData = calls[c].entities
         /\ comparisonData # <<>>

\* a batch over 5 identifiers has succeeded with the entities of its first,
\* third and fourth identifiers
C17_Witness ==
  \E c \in DOMAIN calls :
    /\ IsBatch(c) /\ last.call = c /\ calls[c].outcome = "ok"
    /\ calls[c].got = <<TRUE, FALSE, TRUE, TRUE>>
    /\ comparisonData = <<Ent(1), Ent(3), Ent(4)>>
    /\ analytics.totalSearches = 1
    /\ Len(analytics.searchTimes) = 1

\* ----------------------------------------------- claims: the countdown

\* the countdown is rendered: CountdownTimer is mounted and has not expired
IsCountdownShown == countdown.isFuture /\ ~countdown.timeLeft.isExpired

\* the time a timeLeft displays, in seconds
SecondsShown(t) ==
  ((t.days * 24 + t.hours) * 60 + t.minutes) * 60 + t.seconds

\* C18: an entity available strictly after the instant it is rendered shows
\* the countdown, and keeps showing it while no tick or render has come at
\* or after the timestamp; every tick recomputes the remaining time from the
\* clock (the whole seconds left, split into days, hours, minutes, seconds),
\* which no tick increases; after a tick at or after the timestamp the
\* countdown is not rendered; an entity not available in the future never
\* shows it.
C18_CountdownRunsDown ==
  LET left == countdown.target - countdown.now
      t    == countdown.timeLeft
  IN  /\ countdown.target <= 0 => ~IsCountdownShown
      /\ (countdown.target > 0 /\ countdown.ticks = 0) => IsCountdownShown
      /\ left > 0 => IsCountdownShown
      /\ (left <= 0 /\ countdown.ticks > 0) => ~IsCountdownShown
      /\ (countdown.ticks > 0 \/ countdown.target > 0) =>
           t = CalculateTimeLeft(countdown.target, countdown.now)
      /\ ~t.isExpired =>
           /\ SecondsShown(t) * 1000 <= left
           /\ left < (SecondsShown(t) + 1) * 1000
           /\ t.hours < 24 /\ t.minutes < 60 /\ t.seconds < 60
      /\ countdown.ticks > 0 =>
           SecondsShown(t) <= SecondsShown(countdown.prev)

\* the second tick came at the very timestamp: the countdown, rendered until
\* then, is gone
C18_Witness ==
  /\ countdown.target = 2000
  /\ countdown.now = countdown.target
  /\ countdown.ticks = 2
  /\ ~countdown.prev.isExpired
  /\ countdown.isFuture
  /\ ~IsCountdownShown

\* ------------------------------------------------- claims: formatting

\* "Hh Mm" and "Mm"
HoursMinutes(h, m) == ToString(h) \o "h " \o ToString(m) \o "m"
MinutesOnly(m) == ToString(m) \o "m"

\* C19: formatRuntime renders s seconds as "Hh Mm" with H = s div 3600 and
\* M = (s mod 3600) div 60 when H > 0 and as "Mm" with M = s div 60 when
\* H = 0: 5400 as "1h 30m", 125 as "2m", and the seconds left over are
\* dropped (59 is "0m", 3599 "59m", 7199 "1h 59m").
C19_FormatRuntime ==
  runtime.text # "" =>
    LET s == runtime.seconds
        H == s \div 3600
    IN  /\ H > 0 => runtime.text = HoursMinutes(H, (s % 3600) \div 60)
        /\ H = 0 => runtime.text = MinutesOnly(s \div 60)
        /\ s = 5400 => runtime.text = "1h 30m"
        /\ s = 125 => runtime.text = "2m"
        /\ s = 59 => runtime.text = "0m"
        /\ s = 3599 => runtime.text = "59m"
        /\ s = 3600 => runtime.text = "1h 0m"
        /\ s = 7199 => runtime.text = "1h 59m"

\* a runtime one second short of two hours has been rendered
C19_Witness ==
  /\ runtime.seconds = 7199
  /\ runtime.text = "1h 59m"

\* ------------------------------------------- claims: the recent searches

\* the arguments of the last k trackSearch calls, the newest first
NewestFirst(k) == [i \in 1..k |-> trackLog[Len(trackLog) + 1 - i]]

\* C20: from the empty snapshot, after n trackSearch calls recentSearches
\* holds the {identifier, elapsed} pairs of the last min(n, 10) calls, the
\* newest first, never more than 10; a call made with 10 pairs held drops
\* the last of them, the oldest, and keeps the other 9 behind the new one.
C20_RecentNewestFirst ==
  /\ Len(analytics.recentSearches) <= RECENT_CAP
  /\ analytics.recentSearches = NewestFirst(Min(Len(trackLog), RECENT_CAP))
  /\ (last.op = "trackSearch"
        /\ Len(last.analytics.recentSearches) = RECENT_CAP) =>
       /\ Head(analytics.recentSearches) = [id |-> last.id, time |-> last.rt]
       /\ Tail(analytics.recentSearches) =
            SubSeq(last.analytics.recentSearches, 1, RECENT_CAP - 1)

\* an 11th call has dropped the pair of the first, which was unlike the rest
C20_Witness ==
  /\ Len(trackLog) = RECENT_CAP + 1
  /\ trackLog[1] # PlainTrack
  /\ Len(analytics.recentSearches) = RECENT_CAP
  /\ \A i \in DOMAIN analytics.recentSearches :
       analytics.recentSearches[i] = PlainTrack

\* C21: in every reachable state an error message and a result are never
\* present together: whenever error is non-null, the single-search data is
\* null and the comparison set is empty
C21_ErrorExcludesResult ==
  error # NullStr => (data = Null /\ comparisonData = <<>>)

\* C22: the loading flag is true in every state in which a request of some
\* search, single or batch, is still in flight, so the search input (disabled
\* while loading) is never enabled during an in-flight search
C22_LoadingWhileInFlight ==
  net # {} => isLoading

\* ------------------------------- claims: persisted against in-memory state

\* what a page reload would restore: the initial values of useSearchHistory
\* and useAnalytics read from the persisted values st
ReloadedHistory(st) == GetFromStorage(st, "history", <<>>)
ReloadedAnalytics(st) == GetFromStorage(st, "analytics", EmptyAnalytics)

\* C23 as stated: after every addToHistory, clearHistory and trackSearch call
\* the value persisted under the history key (the analytics key) equals the
\* in-memory list (snapshot) and a reload restores exactly that state, whether
\* the storage write succeeded or failed
C23_PersistedEqualsMemory ==
  IsHookStep =>
    IF last.op = "trackSearch"
    THEN /\ stored.analytics = Item(analytics)
         /\ ReloadedAnalytics(stored) = analytics
    ELSE /\ stored.history = Item(history)
         /\ ReloadedHistory(stored) = history

\* C23, amended: after an addToHistory, clearHistory or trackSearch call whose
\* storage write succeeded, the value persisted under the key equals the
\* in-memory value and a reload restores exactly it; after a call whose write
\* failed, the key holds what it held before the call, so a reload restores
\* what a reload before the call would have restored, not the new in-memory
\* value
C23_PersistedFollowsSuccessfulWrite ==
  IsHookStep =>
    IF storageWritable
    THEN IF last.op = "trackSearch"
         THEN /\ stored.analytics = Item(analytics)
              /\ ReloadedAnalytics(stored) = analytics
         ELSE /\ stored.history = Item(history)
              /\ ReloadedHistory(stored) = history
    ELSE /\ stored = last.stored
         /\ ReloadedHistory(stored) = ReloadedHistory(last.stored)
         /\ ReloadedAnalytics(stored) = ReloadedAnalytics(last.stored)

\* an entry was recorded on top of a persisted list while the storage was
\* full: the list in memory is one entry longer than the list a reload
\* restores, which is the list shown before the call
C23_Witness ==
  /\ last.op = "addToHistory"
  /\ storageReadable /\ ~storageWritable
  /\ stored.history.present /\ stored.history.parses
  /\ ReloadedHistory(stored) = last.history
  /\ last.history # <<>>
  /\ Len(history) = Len(last.history) + 1
  /\ Head(history).id = last.id

\* ------------------------------------------ claims: the frame of a batch

\* the step just taken belongs to a batch search: its synchronous prologue,
\* one of its responses, or its catch and finally blocks
IsBatchStep == last'.call \in DOMAIN calls' /\ calls'[last'.call].kind = "batch"

\* C24: no step of a batch search, whether the batch succeeds or fails,
\* changes the search history list, the value persisted under the history
\* key, the URL query parameter v or the length of the session history: a
\* batch records no history entry and never writes the URL
C24_BatchLeavesHistoryAndUrl ==
  [][IsBatchStep =>
       /\ UNCHANGED <<history, urlV, sessionLen>>
       /\ stored'.history = stored.history]_vars

\* a batch search has succeeded after a single search: the comparison set is
\* displayed while the history holds the single search's entry alone and the
\* URL still carries its identifier
C24_Witness ==
  \E c \in DOMAIN calls :
    /\ IsBatch(c) /\ last.call = c /\ calls[c].outcome = "ok"
    /\ comparisonData # <<>>
    /\ history # <<>> /\ history = last.history
    /\ \A i \in DOMAIN history : history[i].id \in HistoryIds(last.history)
    /\ urlV # 0 /\ urlV = last.urlV

====
